---- MODULE Spec2Model ----
(***************************************************************************)
(* practracker: a best-practices tracker.  One run loads an optional       *)
(* exceptions file into the ProblemVault, scans every source file for      *)
(* three metrics and registers a Problem for each metric above its limit.  *)
(* Text (problem lines, exception lines, locations, dictionary keys) is    *)
(* modelled as sequences of one-character strings, so that formatting,     *)
(* splitting and integer conversion are computed as the code computes them.*)
(***************************************************************************)
EXTENDS Integers, Sequences, FiniteSets, TLC

\* ---------------------------------------------------------------- bounds
\* Longest exceptions file considered, in lines.
MaxLines == 2
\* Most functions found in the scanned tree (all files together).
MaxFuncs == 2
\* Most direct register_problem calls made on a constructed vault.
MaxCalls == 2

\* ------------------------------------------------------ program constants
MAX_FILE_SIZE == 3000
MAX_FUNCTION_SIZE == 100
MAX_INCLUDE_COUNT == 50

\* ------------------------------------------------------- string literals
\* 'file-size'
FILE_SIZE ==
    <<"f", "i", "l", "e", "-", "s", "i", "z", "e">>
\* 'include-count'
INCLUDE_COUNT ==
    <<"i", "n", "c", "l", "u", "d", "e", "-", "c", "o", "u", "n", "t">>
\* 'function-size'
FUNCTION_SIZE ==
    <<"f", "u", "n", "c", "t", "i", "o", "n", "-", "s", "i", "z", "e">>
\* 'problem'
PROBLEM_WORD ==
    <<"p", "r", "o", "b", "l", "e", "m">>
\* 'No exception file provided'
NO_EXCEPTION_FILE ==
    <<"N", "o", " ", "e", "x", "c", "e", "p", "t", "i", "o", "n", " ", "f",
      "i", "l", "e", " ", "p", "r", "o", "v", "i", "d", "e", "d">>
\* '.'
TOR_TOPDIR ==
    <<".">>
\* 'scripts/maint/practracker'
EXCEPTIONS_DIR ==
    <<"s", "c", "r", "i", "p", "t", "s", "/", "m", "a", "i", "n", "t", "/",
      "p", "r", "a", "c", "t", "r", "a", "c", "k", "e", "r">>
\* './exceptions.txt'
EXCEPTIONS_FNAME ==
    <<".", "/", "e", "x", "c", "e", "p", "t", "i", "o", "n", "s", ".", "t",
      "x", "t">>
\* 'practracker FAILED as indicated by the problem lines above. Please use the exceptions file ('
ADVICE_HEAD ==
    <<"p", "r", "a", "c", "t", "r", "a", "c", "k", "e", "r", " ", "F", "A",
      "I", "L", "E", "D", " ", "a", "s", " ", "i", "n", "d", "i", "c", "a",
      "t", "e", "d", " ", "b", "y", " ", "t", "h", "e", " ", "p", "r", "o",
      "b", "l", "e", "m", " ", "l", "i", "n", "e", "s", " ", "a", "b", "o",
      "v", "e", ".", " ", "P", "l", "e", "a", "s", "e", " ", "u", "s", "e",
      " ", "t", "h", "e", " ", "e", "x", "c", "e", "p", "t", "i", "o", "n",
      "s", " ", "f", "i", "l", "e", " ", "(">>
\* ') to find any previous state of these problems. If you are unable to fix the underlying best-practices issue right now then you need to either update the relevant exception line or add a new one.'
ADVICE_TAIL ==
    <<")", " ", "t", "o", " ", "f", "i", "n", "d", " ", "a", "n", "y", " ",
      "p", "r", "e", "v", "i", "o", "u", "s", " ", "s", "t", "a", "t", "e",
      " ", "o", "f", " ", "t", "h", "e", "s", "e", " ", "p", "r", "o", "b",
      "l", "e", "m", "s", ".", " ", "I", "f", " ", "y", "o", "u", " ", "a",
      "r", "e", " ", "u", "n", "a", "b", "l", "e", " ", "t", "o", " ", "f",
      "i", "x", " ", "t", "h", "e", " ", "u", "n", "d", "e", "r", "l", "y",
      "i", "n", "g", " ", "b", "e", "s", "t", "-", "p", "r", "a", "c", "t",
      "i", "c", "e", "s", " ", "i", "s", "s", "u", "e", " ", "r", "i", "g",
      "h", "t", " ", "n", "o", "w", " ", "t", "h", "e", "n", " ", "y", "o",
      "u", " ", "n", "e", "e", "d", " ", "t", "o", " ", "e", "i", "t", "h",
      "e", "r", " ", "u", "p", "d", "a", "t", "e", " ", "t", "h", "e", " ",
      "r", "e", "l", "e", "v", "a", "n", "t", " ", "e", "x", "c", "e", "p",
      "t", "i", "o", "n", " ", "l", "i", "n", "e", " ", "o", "r", " ", "a",
      "d", "d", " ", "a", " ", "n", "e", "w", " ", "o", "n", "e", ".">>
\* './a.c'
PathA ==
    <<".", "/", "a", ".", "c">>
\* './b c.c'
PathB ==
    <<".", "/", "b", " ", "c", ".", "c">>
\* 'f'
NameF ==
    <<"f">>
\* 'g'
NameG ==
    <<"g">>
\* '/a.c'
LocA ==
    <<"/", "a", ".", "c">>
\* '/a.c:f()'
LocAf ==
    <<"/", "a", ".", "c", ":", "f", "(", ")">>
\* '/b c.c'
LocB ==
    <<"/", "b", " ", "c", ".", "c">>
\* 'problem file-size /a.c 3001\n'
LineFileSizeA ==
    <<"p", "r", "o", "b", "l", "e", "m", " ", "f", "i", "l", "e", "-", "s",
      "i", "z", "e", " ", "/", "a", ".", "c", " ", "3", "0", "0", "1", "\n">>
\* 'problem file-size /a.c 3002\n'
LineFileSizeA2 ==
    <<"p", "r", "o", "b", "l", "e", "m", " ", "f", "i", "l", "e", "-", "s",
      "i", "z", "e", " ", "/", "a", ".", "c", " ", "3", "0", "0", "2", "\n">>
\* 'problem file-size /a.c -5\n'
LineNegative ==
    <<"p", "r", "o", "b", "l", "e", "m", " ", "f", "i", "l", "e", "-", "s",
      "i", "z", "e", " ", "/", "a", ".", "c", " ", "-", "5", "\n">>
\* 'problem include-count /a.c 51\n'
LineIncludeA ==
    <<"p", "r", "o", "b", "l", "e", "m", " ", "i", "n", "c", "l", "u", "d",
      "e", "-", "c", "o", "u", "n", "t", " ", "/", "a", ".", "c", " ", "5",
      "1", "\n">>
\* 'problem function-size /a.c:f() 101\n'
LineFunctionAf ==
    <<"p", "r", "o", "b", "l", "e", "m", " ", "f", "u", "n", "c", "t", "i",
      "o", "n", "-", "s", "i", "z", "e", " ", "/", "a", ".", "c", ":", "f",
      "(", ")", " ", "1", "0", "1", "\n">>
\* 'garbage text here\n'
LineThreeFields ==
    <<"g", "a", "r", "b", "a", "g", "e", " ", "t", "e", "x", "t", " ", "h",
      "e", "r", "e", "\n">>
\* 'problem file-size /b c.c 3001\n'
LineFiveFields ==
    <<"p", "r", "o", "b", "l", "e", "m", " ", "f", "i", "l", "e", "-", "s",
      "i", "z", "e", " ", "/", "b", " ", "c", ".", "c", " ", "3", "0", "0",
      "1", "\n">>
\* 'problem line-size /a.c 3001\n'
LineUnknownKind ==
    <<"p", "r", "o", "b", "l", "e", "m", " ", "l", "i", "n", "e", "-", "s",
      "i", "z", "e", " ", "/", "a", ".", "c", " ", "3", "0", "0", "1", "\n">>
\* 'problem file-size /a.c 30x1\n'
LineBadMetric ==
    <<"p", "r", "o", "b", "l", "e", "m", " ", "f", "i", "l", "e", "-", "s",
      "i", "z", "e", " ", "/", "a", ".", "c", " ", "3", "0", "x", "1", "\n">>

\* ----------------------------------------------------------- text helpers
DigitChars == <<"0", "1", "2", "3", "4", "5", "6", "7", "8", "9">>

IsDigit(c) == \E d \in 1..10 : DigitChars[d] = c

DigitVal(c) == (CHOOSE d \in 1..10 : DigitChars[d] = c) - 1

\* Characters int() strips from both ends of its argument.
Whitespace == {" ", "\n", "\t"}

RECURSIVE NatStr(_)
NatStr(n) ==
    IF n < 10 THEN <<DigitChars[n + 1]>>
    ELSE NatStr(n \div 10) \o <<DigitChars[(n % 10) + 1]>>

\* "%s" % an_int
IntStr(n) == IF n < 0 THEN <<"-">> \o NatStr(-n) ELSE NatStr(n)

RECURSIVE lstrip(_)
lstrip(s) ==
    IF s # <<>> /\ s[1] \in Whitespace THEN lstrip(Tail(s)) ELSE s

RECURSIVE rstrip(_)
rstrip(s) ==
    IF s # <<>> /\ s[Len(s)] \in Whitespace
    THEN rstrip(SubSeq(s, 1, Len(s) - 1)) ELSE s

RECURSIVE DigitsVal(_)
DigitsVal(s) ==
    IF s = <<>> THEN 0
    ELSE DigitsVal(SubSeq(s, 1, Len(s) - 1)) * 10 + DigitVal(s[Len(s)])

\* int() as a lenient parser would have it: characters that are no digits
\* are dropped rather than refused.
int_lenient(s) ==
    LET t == rstrip(lstrip(s))
        signed == t # <<>> /\ t[1] \in {"+", "-"}
        body == SelectSeq(IF signed THEN Tail(t) ELSE t, IsDigit)
    IN  [ok |-> TRUE,
         val |-> IF signed /\ t[1] = "-" THEN 0 - DigitsVal(body)
                 ELSE DigitsVal(body)]

\* int(text): surrounding whitespace stripped, an optional sign, then one or
\* more decimal digits; anything else raises ValueError (ok = FALSE).
int(s) ==
    LET t == rstrip(lstrip(s))
        signed == t # <<>> /\ t[1] \in {"+", "-"}
        body == IF signed THEN Tail(t) ELSE t
    IN  IF body = <<>> \/ \E i \in 1..Len(body) : ~IsDigit(body[i])
        THEN [ok |-> FALSE, val |-> 0]
        ELSE [ok |-> TRUE,
              val |-> IF signed /\ t[1] = "-" THEN 0 - DigitsVal(body)
                      ELSE DigitsVal(body)]

\* text.split(" "): cut at every single space, empty fields kept.
RECURSIVE split(_)
split(s) ==
    IF \A i \in 1..Len(s) : s[i] # " " THEN <<s>>
    ELSE LET i == CHOOSE j \in 1..Len(s) :
                      s[j] = " " /\ \A k \in 1..(j - 1) : s[k] # " "
         IN  <<SubSeq(s, 1, i - 1)>> \o split(SubSeq(s, i + 1, Len(s)))

\* text.startswith(prefix)
startswith(s, prefix) ==
    Len(prefix) <= Len(s) /\ SubSeq(s, 1, Len(prefix)) = prefix

\* ---------------------------------------------------------------- Problem
Problem(problem_type, problem_location, metric_value) ==
    [problem_type |-> problem_type,
     problem_location |-> problem_location,
     metric_value |-> metric_value]

\* is_worse_than with >= for >.
is_worse_than_or_equal(self, other_problem) ==
    self.metric_value >= other_problem.metric_value

is_worse_than(self, other_problem) ==
    self.metric_value > other_problem.metric_value

key(self) == self.problem_location \o <<":">> \o self.problem_type

\* __str__ with the location written before the type.
str_location_first(self) ==
    PROBLEM_WORD \o <<" ">> \o self.problem_location \o <<" ">>
        \o self.problem_type \o <<" ">> \o IntStr(self.metric_value)

__str__(self) ==
    PROBLEM_WORD \o <<" ">> \o self.problem_type \o <<" ">>
        \o self.problem_location \o <<" ">> \o IntStr(self.metric_value)

FileSizeProblem(problem_location, metric_value) ==
    Problem(FILE_SIZE, problem_location, metric_value)

IncludeCountProblem(problem_location, metric_value) ==
    Problem(INCLUDE_COUNT, problem_location, metric_value)

FunctionSizeProblem(problem_location, metric_value) ==
    Problem(FUNCTION_SIZE, problem_location, metric_value)

\* get_old_problem_from_exception_str without its check of the type: every
\* four-field line makes a Problem.
get_old_problem_any_type(exception_str) ==
    LET fields == split(exception_str)
    IN  IF Len(fields) # 4
        THEN [tag |-> "None", p |-> Problem(<<>>, <<>>, 0)]
        ELSE IF int(fields[4]).ok
             THEN [tag |-> "Problem",
                   p |-> Problem(fields[2], fields[3], int(fields[4]).val)]
             ELSE [tag |-> "ValueError", p |-> Problem(<<>>, <<>>, 0)]

\* What get_old_problem_from_exception_str does with one line: tag "None"
\* (line skipped), "Problem" (p is the parsed Problem) or "ValueError" (the
\* int() of Problem.__init__ raised; nothing in the function catches it).
get_old_problem_from_exception_str(exception_str) ==
    LET fields == split(exception_str)
        none == [tag |-> "None", p |-> Problem(<<>>, <<>>, 0)]
    IN  IF Len(fields) # 4 THEN none
        ELSE LET problem_type == fields[2]
                 problem_location == fields[3]
                 metric_value == int(fields[4])
             IN  IF problem_type \in {FILE_SIZE, INCLUDE_COUNT, FUNCTION_SIZE}
                 THEN IF metric_value.ok
                      THEN [tag |-> "Problem",
                            p |-> Problem(problem_type, problem_location,
                                          metric_value.val)]
                      ELSE [tag |-> "ValueError", p |-> Problem(<<>>, <<>>, 0)]
                 ELSE none

\* ----------------------------------------------------------- ProblemVault
\* The exception dictionary { problem.key() : Problem }, empty.
EmptyDict == [k \in {} |-> Problem(<<>>, <<>>, 0)]

\* self.exceptions[problem.key()] = problem
DictSet(exceptions, problem) ==
    [k \in (DOMAIN exceptions) \cup {key(problem)} |->
        IF k = key(problem) THEN problem ELSE exceptions[k]]

\* register_problem printing every Problem it is given.
register_problem_print_all(exceptions, problem) ==
    [ret |-> \/ key(problem) \notin DOMAIN exceptions
             \/ is_worse_than(problem, exceptions[key(problem)]),
     printed |-> <<__str__(problem) \o <<"\n">>>>,
     exceptions |-> exceptions]

\* register_problem recording each Problem it reports as the new exception.
register_problem_remember(exceptions, problem) ==
    IF \/ key(problem) \notin DOMAIN exceptions
       \/ is_worse_than(problem, exceptions[key(problem)])
    THEN [ret |-> TRUE, printed |-> <<__str__(problem) \o <<"\n">>>>,
          exceptions |-> DictSet(exceptions, problem)]
    ELSE [ret |-> FALSE, printed |-> <<>>, exceptions |-> exceptions]

\* register_problem: the value returned, the lines printed and the exception
\* dictionary the call leaves behind.
register_problem(exceptions, problem) ==
    IF key(problem) \notin DOMAIN exceptions
    THEN [ret |-> TRUE, printed |-> <<__str__(problem) \o <<"\n">>>>,
          exceptions |-> exceptions]
    ELSE IF is_worse_than(problem, exceptions[key(problem)])
         THEN [ret |-> TRUE, printed |-> <<__str__(problem) \o <<"\n">>>>,
               exceptions |-> exceptions]
         ELSE [ret |-> FALSE, printed |-> <<>>, exceptions |-> exceptions]

\* ----------------------------------------------------------------- driver
\* A consider_* result when no Problem is built: nothing registered.
NoSubmit(exceptions) ==
    [ret |-> FALSE, printed |-> <<>>, exceptions |-> exceptions,
     calls |-> <<>>]

\* return ProblemVault.register_problem(p), with the call noted.
Submit(exceptions, p) ==
    LET r == register_problem(exceptions, p)
    IN  [ret |-> r.ret, printed |-> r.printed, exceptions |-> r.exceptions,
         calls |-> <<[p |-> p, ret |-> r.ret, printed |-> r.printed]>>]

consider_file_size(exceptions, fname, file_size) ==
    IF file_size > MAX_FILE_SIZE
    THEN Submit(exceptions, FileSizeProblem(fname, file_size))
    ELSE NoSubmit(exceptions)

\* consider_includes with >= for >.
consider_includes_or_equal(exceptions, fname, include_count) ==
    IF include_count >= MAX_INCLUDE_COUNT
    THEN Submit(exceptions, IncludeCountProblem(fname, include_count))
    ELSE NoSubmit(exceptions)

consider_includes(exceptions, fname, include_count) ==
    IF include_count > MAX_INCLUDE_COUNT
    THEN Submit(exceptions, IncludeCountProblem(fname, include_count))
    ELSE NoSubmit(exceptions)

\* One iteration of the loop of consider_function_size.
consider_function_size(exceptions, fname, name, lines) ==
    IF lines <= MAX_FUNCTION_SIZE
    THEN NoSubmit(exceptions)
    ELSE LET canonical_function_name == fname \o <<":">> \o name \o <<"(", ")">>
         IN  Submit(exceptions,
                    FunctionSizeProblem(canonical_function_name, lines))

\* Strip the useless part of the path.
strip_topdir(fname) ==
    IF startswith(fname, TOR_TOPDIR)
    THEN SubSeq(fname, Len(TOR_TOPDIR) + 1, Len(fname))
    ELSE fname

\* os.path.join(TOR_TOPDIR, "scripts/maint/practracker", EXCEPTIONS_FNAME)
exceptions_file ==
    TOR_TOPDIR
        \o (IF TOR_TOPDIR # <<>> /\ TOR_TOPDIR[Len(TOR_TOPDIR)] = "/"
            THEN <<>> ELSE <<"/">>)
        \o EXCEPTIONS_DIR \o <<"/">> \o EXCEPTIONS_FNAME

new_issues_str == ADVICE_HEAD \o exceptions_file \o ADVICE_TAIL

\* The status the process ends with for sys.exit(found_new_issues).
sys_exit(found_new_issues) == IF found_new_issues THEN 1 ELSE 0

\* ----------------------------------------------------------------- inputs
\* Lines an exceptions file may hold.
BaselineLines ==
    {LineFileSizeA, LineFileSizeA2, LineNegative, LineIncludeA,
     LineFunctionAf, LineThreeFields, LineFiveFields, LineUnknownKind,
     LineBadMetric, NO_EXCEPTION_FILE \o <<"\n">>}

SeqsUpTo(S, n) == UNION {[1..k -> S] : k \in 0..n}

\* The exceptions file as a run finds it: absent, or its lines.
ExceptionFiles ==
    {[exists |-> FALSE, lines |-> <<>>]}
        \cup {[exists |-> TRUE, lines |-> ls] :
                ls \in SeqsUpTo(BaselineLines, MaxLines)}

\* What util.get_tor_c_files can list, in order.
FileNames == <<PathA, PathB>>

\* (name, lines) pairs metrics.get_function_lines can yield.
FunctionLines ==
    {[name |-> NameF, lines |-> MAX_FUNCTION_SIZE + 1],
     [name |-> NameF, lines |-> MAX_FUNCTION_SIZE + 2],
     [name |-> NameG, lines |-> MAX_FUNCTION_SIZE]}

\* What the metrics module can measure of the file listed at position i,
\* when the tree so far holds `used` functions.
FileContents(i, used) ==
    [fname : {FileNames[i]},
     file_size : {MAX_FILE_SIZE, MAX_FILE_SIZE + 1},
     include_count : {MAX_INCLUDE_COUNT, MAX_INCLUDE_COUNT + 1},
     functions : SeqsUpTo(FunctionLines, MaxFuncs - used)]

RECURSIVE NumFuncs(_)
NumFuncs(files) ==
    IF files = <<>> THEN 0
    ELSE Len(Head(files).functions) + NumFuncs(Tail(files))

\* Problems handed directly to a constructed vault.
AnyProblems ==
    {Problem(k, l, m) : k \in {FILE_SIZE, INCLUDE_COUNT, FUNCTION_SIZE},
                        l \in {LocA, LocB},
                        m \in {0 - 5, 0, MAX_FILE_SIZE + 1, MAX_FILE_SIZE + 2}}

\* ------------------------------------------------------------------ state
VARIABLES
    pc,            \* where the run is: "main", "load", "files", "file_size",
                   \* "includes", "functions", "advice", "exited", "crashed"
    run,           \* 1: first run; 2: the run after the output was saved
    exception_f,   \* the exceptions file: whether it exists, lines not yet read
    line,          \* register_exceptions: the line being handled (<<>>: none)
    exceptions,    \* ProblemVault.exceptions
    fs,            \* the source files measured so far, in files_list order
    file_idx,      \* consider_all_metrics: position in files_list
    func_idx,      \* consider_function_size: position in the function list
    all_found,     \* consider_all_metrics: found_new_issues
    file_found,    \* consider_metrics_for_file: found_new_issues
    func_found,    \* consider_function_size: found_new_issues
    stdout,        \* lines printed so far
    exit_status,   \* -1 while running, then the process exit status
    calls          \* register_problem calls of this run: problem, result, text

vars ==
    <<pc, run, exception_f, line, exceptions, fs, file_idx, func_idx,
      all_found, file_found, func_found, stdout, exit_status, calls>>

scan_vars == <<file_idx, func_idx, all_found, file_found, func_found>>

Init ==
    /\ pc = "main"
    /\ run = 1
    /\ exception_f \in ExceptionFiles
    /\ line = <<>>
    /\ exceptions = EmptyDict
    /\ fs = <<>>
    /\ file_idx = 0
    /\ func_idx = 0
    /\ all_found = FALSE
    /\ file_found = FALSE
    /\ func_found = FALSE
    /\ stdout = <<>>
    /\ exit_status = -1
    /\ calls = <<>>

\* ProblemVault.__init__: open the exceptions file, or report that there is
\* none and go on with an empty dictionary.
ProblemVault_init ==
    /\ pc = "main"
    /\ IF exception_f.exists
       THEN /\ pc' = "load"
            /\ stdout' = stdout
       ELSE /\ pc' = "files"
            /\ stdout' = Append(stdout, NO_EXCEPTION_FILE \o <<"\n">>)
    /\ UNCHANGED <<run, exception_f, line, exceptions, fs, scan_vars,
                   exit_status, calls>>

\* register_exceptions: one iteration of the loop over the file's lines, or
\* its end.  A ValueError leaves __init__ (only IOError is caught there) and
\* main, and the interpreter exits with status 1.
register_exceptions ==
    /\ pc = "load"
    /\ IF exception_f.lines = <<>>
       THEN /\ pc' = "files"
            /\ line' = <<>>
            /\ UNCHANGED <<exception_f, exceptions, exit_status>>
       ELSE LET l == Head(exception_f.lines)
                problem == get_old_problem_from_exception_str(l)
            IN  /\ line' = l
                /\ exception_f' =
                       [exception_f EXCEPT !.lines = Tail(exception_f.lines)]
                /\ IF problem.tag = "None"
                   THEN UNCHANGED <<pc, exceptions, exit_status>>
                   ELSE IF problem.tag = "Problem"
                        THEN /\ exceptions' = DictSet(exceptions, problem.p)
                             /\ UNCHANGED <<pc, exit_status>>
                        ELSE /\ pc' = "crashed"
                             /\ exit_status' = 1
                             /\ UNCHANGED exceptions
    /\ UNCHANGED <<run, fs, scan_vars, stdout, calls>>

\* consider_all_metrics, first run: the next file of files_list is opened and
\* measured.
open_new_file ==
    /\ pc = "files"
    /\ run = 1
    /\ file_idx = Len(fs)
    /\ file_idx < Len(FileNames)
    /\ \E f \in FileContents(file_idx + 1, NumFuncs(fs)) : fs' = Append(fs, f)
    /\ pc' = "file_size"
    /\ file_idx' = file_idx + 1
    /\ file_found' = FALSE
    /\ UNCHANGED <<run, exception_f, line, exceptions, func_idx, all_found,
                   func_found, stdout, exit_status, calls>>

\* consider_all_metrics, second run: the same files, unchanged.
open_same_file ==
    /\ pc = "files"
    /\ run = 2
    /\ file_idx < Len(fs)
    /\ pc' = "file_size"
    /\ file_idx' = file_idx + 1
    /\ file_found' = FALSE
    /\ UNCHANGED <<run, exception_f, line, exceptions, fs, func_idx,
                   all_found, func_found, stdout, exit_status, calls>>

\* consider_all_metrics: files_list is exhausted.
files_done ==
    /\ pc = "files"
    /\ file_idx = Len(fs)
    /\ pc' = "advice"
    /\ UNCHANGED <<run, exception_f, line, exceptions, fs, scan_vars, stdout,
                   exit_status, calls>>

\* found_new_issues |= consider_file_size(fname, f)
step_file_size ==
    /\ pc = "file_size"
    /\ LET f == fs[file_idx]
           r == consider_file_size(exceptions, strip_topdir(f.fname),
                                   f.file_size)
       IN  /\ file_found' = (file_found \/ r.ret)
           /\ exceptions' = r.exceptions
           /\ stdout' = stdout \o r.printed
           /\ calls' = calls \o r.calls
    /\ pc' = "includes"
    /\ UNCHANGED <<run, exception_f, line, fs, file_idx, func_idx, all_found,
                   func_found, exit_status>>

\* found_new_issues |= consider_includes(fname, f)
step_includes ==
    /\ pc = "includes"
    /\ LET f == fs[file_idx]
           r == consider_includes(exceptions, strip_topdir(f.fname),
                                  f.include_count)
       IN  /\ file_found' = (file_found \/ r.ret)
           /\ exceptions' = r.exceptions
           /\ stdout' = stdout \o r.printed
           /\ calls' = calls \o r.calls
    /\ pc' = "functions"
    /\ func_idx' = 0
    /\ func_found' = FALSE
    /\ UNCHANGED <<run, exception_f, line, fs, file_idx, all_found,
                   exit_status>>

\* consider_function_size: one iteration of its loop; at the end of the loop
\* its result is or-ed into the file's, and the file's into the run's.
step_function_size ==
    /\ pc = "functions"
    /\ LET f == fs[file_idx]
       IN  IF func_idx < Len(f.functions)
           THEN LET fn == f.functions[func_idx + 1]
                    r == consider_function_size(exceptions,
                             strip_topdir(f.fname), fn.name, fn.lines)
                IN  /\ func_found' = (func_found \/ r.ret)
                    /\ exceptions' = r.exceptions
                    /\ stdout' = stdout \o r.printed
                    /\ calls' = calls \o r.calls
                    /\ func_idx' = func_idx + 1
                    /\ UNCHANGED <<pc, file_found, all_found>>
           ELSE /\ file_found' = (file_found \/ func_found)
                /\ all_found' = (all_found \/ file_found')
                /\ pc' = "files"
                /\ UNCHANGED <<exceptions, stdout, calls, func_idx,
                               func_found>>
    /\ UNCHANGED <<run, exception_f, line, fs, file_idx, exit_status>>

\* main, after the scan: the advice when new issues were found, then
\* sys.exit(found_new_issues).
main_exit ==
    /\ pc = "advice"
    /\ stdout' = IF all_found
                 THEN Append(stdout, new_issues_str \o <<"\n">>)
                 ELSE stdout
    /\ exit_status' = sys_exit(all_found)
    /\ pc' = "exited"
    /\ UNCHANGED <<run, exception_f, line, exceptions, fs, scan_vars, calls>>

\* The exceptions file is initialized from a run's output
\* (practracker.py . > exceptions.txt), and practracker is run again.
save_output ==
    /\ pc = "exited"
    /\ run = 1
    /\ ~exception_f.exists
    /\ exception_f' = [exists |-> TRUE, lines |-> stdout]
    /\ run' = 2
    /\ pc' = "main"
    /\ line' = <<>>
    /\ exceptions' = EmptyDict
    /\ file_idx' = 0
    /\ func_idx' = 0
    /\ all_found' = FALSE
    /\ file_found' = FALSE
    /\ func_found' = FALSE
    /\ stdout' = <<>>
    /\ exit_status' = -1
    /\ calls' = <<>>
    /\ UNCHANGED fs

Next ==
    \/ ProblemVault_init
    \/ register_exceptions
    \/ open_new_file
    \/ open_same_file
    \/ files_done
    \/ step_file_size
    \/ step_includes
    \/ step_function_size
    \/ main_exit
    \/ save_output

Spec == Init /\ [][Next]_vars

\* A constructed vault used directly: register_problem called with any
\* Problem, as its callers and tests may.
register_direct ==
    /\ pc = "files"
    /\ Len(calls) < MaxCalls
    /\ \E p \in AnyProblems :
          LET r == Submit(exceptions, p)
          IN  /\ exceptions' = r.exceptions
              /\ stdout' = stdout \o r.printed
              /\ calls' = calls \o r.calls
    /\ UNCHANGED <<pc, run, exception_f, line, fs, scan_vars, exit_status>>

NextVault ==
    \/ ProblemVault_init
    \/ register_exceptions
    \/ register_direct

SpecVault == Init /\ [][NextVault]_vars

\* ------------------------------------------------------ claims' vocabulary
Kinds == {FILE_SIZE, INCLUDE_COUNT, FUNCTION_SIZE}

Range(s) == {s[i] : i \in 1..Len(s)}

HasSpace(s) == \E i \in 1..Len(s) : s[i] = " "

\* The keys of the exception dictionary whose entry has p's identity.
SameIdentity(p) ==
    {k \in DOMAIN exceptions :
        /\ exceptions[k].problem_location = p.problem_location
        /\ exceptions[k].problem_type = p.problem_type}

\* p is absent from the baseline, or strictly above its entry there.
NewOrWorse(p) ==
    \/ SameIdentity(p) = {}
    \/ \E k \in SameIdentity(p) :
          p.metric_value > exceptions[k].metric_value

\* p is in the baseline with an equal or larger value.
Covered(p) ==
    \E k \in SameIdentity(p) : p.metric_value <= exceptions[k].metric_value

Finished == pc \in {"exited", "crashed"}

\* A line of 3 or 5 fields (or any number but 4), or of 4 fields with a type
\* that is none of the three.
IsMalformedLine(l) ==
    \/ Len(split(l)) # 4
    \/ Len(split(l)) = 4 /\ split(l)[2] \notin Kinds

\* Decimal digits, one at least, after an optional sign and before an
\* optional end of line.
IsIntegerText(s) ==
    LET t == IF s # <<>> /\ s[Len(s)] = "\n"
             THEN SubSeq(s, 1, Len(s) - 1) ELSE s
        d == IF t # <<>> /\ t[1] \in {"+", "-"} THEN Tail(t) ELSE t
    IN  d # <<>> /\ \A i \in 1..Len(d) : IsDigit(d[i])

\* A line of four fields and a known type whose last field is no integer.
IsBadMetricLine(l) ==
    /\ Len(split(l)) = 4
    /\ split(l)[2] \in Kinds
    /\ ~IsIntegerText(split(l)[4])

\* A line of four fields, a known type and an integer.
IsWellFormedLine(l) ==
    /\ Len(split(l)) = 4
    /\ split(l)[2] \in Kinds
    /\ IsIntegerText(split(l)[4])

\* ------------------------------------------------------------------ claims

\* C1: register_problem returns True exactly when the Problem's identity
\* (location, kind) is absent from the baseline, or present with a strictly
\* smaller value; an absent identity gives True for every value, zero too.
C1_RegisterProblemRatchet ==
    \A i \in 1..Len(calls) :
        /\ SameIdentity(calls[i].p) = {} => calls[i].ret
        /\ \A k \in SameIdentity(calls[i].p) :
              calls[i].ret =
                  (calls[i].p.metric_value > exceptions[k].metric_value)

\* C1 witness: a Problem of value zero with an absent identity was reported,
\* and one equal to its baseline entry was not.
C1_Witness ==
    /\ \E i \in 1..Len(calls) :
          /\ calls[i].p.metric_value = 0
          /\ SameIdentity(calls[i].p) = {}
          /\ calls[i].ret
    /\ \E i \in 1..Len(calls) :
          /\ \E k \in SameIdentity(calls[i].p) :
                calls[i].p.metric_value = exceptions[k].metric_value
          /\ ~calls[i].ret

\* C2: the exit status of a run is nonzero if and only if some
\* register_problem call of the scan returned True.
C2_ExitNonzeroIffNewIssue ==
    Finished =>
        ((exit_status # 0) <=> \E i \in 1..Len(calls) : calls[i].ret)

\* The (kind, value) pairs the thresholds 3000, 50 and 100 call for, file by
\* file: size, includes, then each function.
RECURSIVE OverLimitFunctions(_)
OverLimitFunctions(fns) ==
    IF fns = <<>> THEN <<>>
    ELSE (IF Head(fns).lines > 100
          THEN <<[kind |-> FUNCTION_SIZE, value |-> Head(fns).lines]>>
          ELSE <<>>) \o OverLimitFunctions(Tail(fns))

RECURSIVE OverLimit(_)
OverLimit(files) ==
    IF files = <<>> THEN <<>>
    ELSE (IF Head(files).file_size > 3000
          THEN <<[kind |-> FILE_SIZE, value |-> Head(files).file_size]>>
          ELSE <<>>)
         \o (IF Head(files).include_count > 50
             THEN <<[kind |-> INCLUDE_COUNT,
                     value |-> Head(files).include_count]>>
             ELSE <<>>)
         \o OverLimitFunctions(Head(files).functions)
         \o OverLimit(Tail(files))

\* C3: once the scan is over, the Problems submitted to the vault are exactly
\* one per metric strictly above its threshold (3000 lines, 50 includes, 100
\* lines for each single function), and none for a metric at its threshold.
C3_SubmittedIffOverThreshold ==
    pc \in {"advice", "exited"} =>
        [i \in 1..Len(calls) |->
            [kind |-> calls[i].p.problem_type,
             value |-> calls[i].p.metric_value]] = OverLimit(fs)

\* C3 witness: a scan of a file of 3000 lines and another of 50 includes, with
\* a function of 100 lines and two larger ones, has ended with three calls.
C3_Witness ==
    /\ pc = "exited"
    /\ Len(calls) = 3
    /\ \E i \in 1..Len(fs) : fs[i].file_size = 3000
    /\ \E i \in 1..Len(fs) : fs[i].include_count = 50
    /\ \E i \in 1..Len(fs) : \E j \in 1..Len(fs[i].functions) :
          fs[i].functions[j].lines = 100
    /\ Cardinality({i \in 1..Len(calls) :
                      calls[i].p.problem_type = FUNCTION_SIZE}) = 1

\* C4, as claimed: a run emits every Problem it observed, those already in
\* the loaded baseline with an equal or larger value too.
C4_EmitsEveryObservedProblem ==
    pc = "exited" =>
        \A i \in 1..Len(calls) :
            (__str__(calls[i].p) \o <<"\n">>) \in Range(stdout)

\* C4, amended: a run emits an observed Problem exactly when its identity is
\* absent from the loaded baseline or its value is strictly greater than the
\* baseline's; a Problem the baseline covers is not emitted.
C4_EmitsNewOrWorseOnly ==
    pc = "exited" =>
        \A i \in 1..Len(calls) :
            ((__str__(calls[i].p) \o <<"\n">>) \in Range(stdout))
                <=> NewOrWorse(calls[i].p)

\* C4 witness: a run has ended that observed a Problem its baseline covers
\* and another that it does not.
C4_Witness ==
    /\ pc = "exited"
    /\ \E i \in 1..Len(calls) : Covered(calls[i].p)
    /\ \E i \in 1..Len(calls) : NewOrWorse(calls[i].p)

\* C5: a baseline line of four fields and a known kind whose value is no
\* integer is skipped, and no error leaves the construction of the vault.
C5_BadMetricLineSkipped ==
    (line # <<>> /\ IsBadMetricLine(line)) => pc # "crashed"

\* C6, as claimed: for any Problem, parsing its text gives back its kind,
\* location and value.
C6_RoundTrip ==
    \A i \in 1..Len(calls) :
        LET back == get_old_problem_from_exception_str(__str__(calls[i].p))
        IN  back.tag = "Problem" /\ back.p = calls[i].p

\* C6, amended: for any Problem whose location holds no space, parsing its
\* text gives back its kind, location and value.
C6_RoundTripNoSpace ==
    \A i \in 1..Len(calls) :
        ~HasSpace(calls[i].p.problem_location) =>
            LET back ==
                    get_old_problem_from_exception_str(__str__(calls[i].p))
            IN  back.tag = "Problem" /\ back.p = calls[i].p

\* C6 witness: Problems of a negative and of a positive value, with a
\* location free of spaces, were formatted.
C6_Witness ==
    /\ \E i \in 1..Len(calls) :
          /\ ~HasSpace(calls[i].p.problem_location)
          /\ calls[i].p.metric_value < 0
    /\ \E i \in 1..Len(calls) :
          /\ ~HasSpace(calls[i].p.problem_location)
          /\ calls[i].p.metric_value > 0
          /\ calls[i].printed # <<>>

\* C7: a baseline line of 3 or 5 fields, or of 4 fields with an unknown kind,
\* raises no error and leaves the exception mapping as it was; the load goes
\* on with the next line.
C7_MalformedLineAddsNothing ==
    [][(/\ pc = "load"
        /\ exception_f.lines # <<>>
        /\ IsMalformedLine(Head(exception_f.lines)))
       => (exceptions' = exceptions /\ pc' = "load")]_vars

\* C7 witness: the load has passed a malformed line after a well-formed one,
\* and the mapping holds the one entry.
C7_Witness ==
    /\ pc = "load"
    /\ line # <<>>
    /\ IsMalformedLine(line)
    /\ Cardinality(DOMAIN exceptions) = 1

\* C8, as claimed: every Problem, built by the driver or loaded from the
\* baseline, has a value that is a non-negative integer.
C8_MetricNonNegative ==
    /\ \A i \in 1..Len(calls) : calls[i].p.metric_value >= 0
    /\ \A k \in DOMAIN exceptions : exceptions[k].metric_value >= 0

\* C8, amended: every Problem built by the driver has a non-negative integer
\* value; a Problem loaded from the baseline has the integer its field
\* denotes, negative or not; and a field that denotes no integer makes the
\* construction fail instead of producing a Problem.
C8_MetricIsTheFieldsInteger ==
    /\ \A i \in 1..Len(calls) : calls[i].p.metric_value \in Nat
    /\ \A k \in DOMAIN exceptions : exceptions[k].metric_value \in Int
    /\ (line # <<>> /\ IsWellFormedLine(line)) =>
          \E k \in DOMAIN exceptions :
              /\ exceptions[k].problem_type = split(line)[2]
              /\ exceptions[k].problem_location = split(line)[3]
              /\ IntStr(exceptions[k].metric_value) \o <<"\n">>
                     = split(line)[4]
    /\ (line # <<>> /\ IsBadMetricLine(line)) => pc = "crashed"

\* C8 witness: the baseline has given a Problem of value -5.
C8_Witness ==
    /\ line = LineNegative
    /\ \E k \in DOMAIN exceptions : exceptions[k].metric_value = 0 - 5

\* C9: once the baseline is loaded, no step of the run changes the exception
\* mapping, whatever register_problem is called with and returns.
C9_BaselineFixedAfterLoad ==
    [][(pc \notin {"main", "load"} /\ pc' # "main")
       => exceptions' = exceptions]_vars

\* C9 witness: two Problems of one identity absent from the baseline were
\* registered, the larger first, and both were reported.
C9_Witness ==
    /\ Len(calls) = 2
    /\ calls[1].p.problem_location = calls[2].p.problem_location
    /\ calls[1].p.problem_type = calls[2].p.problem_type
    /\ calls[1].p.metric_value > calls[2].p.metric_value
    /\ calls[1].ret /\ calls[2].ret

\* C10: when the whole output of a first run made without an exceptions file
\* is saved as the exceptions file, a second run over the same files, whose
\* locations hold no space, prints no problem line and exits with status 0.
C10_InitialisedOnceThenClean ==
    (/\ run = 2
     /\ pc = "exited"
     /\ \A i \in 1..Len(calls) : ~HasSpace(calls[i].p.problem_location))
    => (exit_status = 0 /\ stdout = <<>>)
====
